---- MODULE Spec2Model ----
(***************************************************************************)
(* Model of rpcx_client/src/xclient.rs: XClient, the client-side dispatch  *)
(* core.  One XClient (fail_mode, opt, clients, selector) is used by the   *)
(* callers of Callers in turn: call() and acall() take &mut self, so one   *)
(* activation runs at a time, while futures returned by acall() may still  *)
(* be unresolved.  A call is: selector.select, clients.write(),            *)
(* get_cached_client, Client::call, then the FailMode match.  The Client   *)
(* (client.rs) and the selector (selector.rs) are collaborators: their     *)
(* outcomes are inputs drawn with \E.                                      *)
(***************************************************************************)
EXTENDS Integers, Sequences, FiniteSets, TLC

\* ------------------------------------------------------------------ bounds
MaxRetry == 2
MaxCalls == 3

\* The places the XClient is called from.  Each keeps the record of its
\* latest call; they hold the XClient one at a time.
Callers == {"c1", "c2"}

\* ------------------------------------------------------- keys and parsing
\* A key is a string, modelled as a sequence of characters.
EmptyKey == <<>>
KeyA == <<"t", "c", "p", "@", "a">>
KeyB == <<"b">>
KeyC == <<"u", "@", "c">>
Keys == {KeyA, KeyB, KeyC}
AllKeys == Keys \cup {EmptyKey}

Tcp == <<"t", "c", "p">>

\* str::split("@"): the pieces between the separators, at least one piece.
RECURSIVE Split(_)
Split(s) ==
    IF \E i \in 1..Len(s) : s[i] = "@"
    THEN LET i == CHOOSE j \in 1..Len(s) :
                     s[j] = "@" /\ \A h \in 1..(j - 1) : s[h] # "@"
         IN  <<SubSeq(s, 1, i - 1)>> \o Split(SubSeq(s, i + 1, Len(s)))
    ELSE <<s>>

\* items of get_cached_client: split, and "tcp" put in front of a lone piece.
Items(key) ==
    LET items == Split(key)
    IN  IF Len(items) = 1 THEN <<Tcp>> \o items ELSE items

\* &items[1] (0-based): the address handed to Client::new.
Address(key) == Items(key)[2]

\* String::is_empty
IsEmpty_AlwaysFalse(key) == FALSE
IsEmpty(key) == key = EmptyKey

\* ---------------------------------------------------------------- FailMode
Failover == "Failover"
Failfast == "Failfast"
Failtry == "Failtry"
Failbackup == "Failbackup"
FailMode == {Failover, Failfast, Failtry, Failbackup}

\* Opt: the field this file reads is retry.
Opts == [retry : 0..MaxRetry]

\* ------------------------------------------------------- results and errors
\* Option<Result<T>> / Result: kind is "Ok", "Err" or "None"; what tells the
\* origin, key and n tell which Client and which of its invocations produced it.
Res(kind, what, key, n) == [kind |-> kind, what |-> what, key |-> key, n |-> n]

None == Res("None", "", EmptyKey, 0)
ServerNotFound == Res("Err", "server not found", EmptyKey, 0)
ClientNotFound == Res("Err", "client still not found", EmptyKey, 0)
StartError(key, n) == Res("Err", "start", key, n)

is_err(r) == r.kind = "Err"
is_ok(r) == r.kind = "Ok"

\* ------------------------------------------------------------------- state
NoClient == [addr |-> <<>>, opt |-> [retry |-> 0], id |-> 0]
NoHolder == "none"

VARIABLES
    fail_mode,   \* XClient.fail_mode
    opt,         \* XClient.opt
    clients,     \* XClient.clients: key -> Client, NoClient where absent
    guard,       \* holder of the write lock of clients
    pc,          \* where each caller is in call()/acall()
    op,          \* "call" or "acall"
    is_oneway,   \* argument of call()
    k,           \* the key the selector returned to this call
    retry,       \* local of the Failtry loop
    rt,          \* local: result of the first invocation
    ret,         \* what the call returned (None while it runs)
    selected,    \* keys the selector returned during this call, in order
    outcomes,    \* results of this call's Client invocations, in order
    built,       \* TRUE when this call's get_cached_client constructed a Client
    ncalls,      \* calls begun so far, by all callers
    created,     \* per key: Client::new calls
    started,     \* per key: start() calls that returned Ok
    failed       \* per key: start() calls that returned Err

vars == <<fail_mode, opt, clients, guard, pc, op, is_oneway, k, retry, rt, ret,
          selected, outcomes, built, ncalls, created, started, failed>>

xclient == <<fail_mode, opt>>
perCall == <<op, is_oneway, k, retry, rt, ret, selected, outcomes, built>>
counters == <<created, started, failed>>

\* XClient::new: empty map, the given fail mode and options.
Init ==
    /\ fail_mode \in FailMode
    /\ opt \in Opts
    /\ clients = [key \in AllKeys |-> NoClient]
    /\ guard = NoHolder
    /\ pc = [c \in Callers |-> "idle"]
    /\ op = [c \in Callers |-> "call"]
    /\ is_oneway = [c \in Callers |-> FALSE]
    /\ k = [c \in Callers |-> EmptyKey]
    /\ retry = [c \in Callers |-> 0]
    /\ rt = [c \in Callers |-> None]
    /\ ret = [c \in Callers |-> None]
    /\ selected = [c \in Callers |-> <<>>]
    /\ outcomes = [c \in Callers |-> <<>>]
    /\ built = [c \in Callers |-> FALSE]
    /\ ncalls = 0
    /\ created = [key \in AllKeys |-> 0]
    /\ started = [key \in AllKeys |-> 0]
    /\ failed = [key \in AllKeys |-> 0]

\* ------------------------------------------------------ get_cached_client
\* HashMap::get / get_mut
Lookup(m, key) == m[key]

\* Lines 74-79: get_mut(&k) is None and the second get(&k) is None too.
NeedsCreate_Always(m, key) == TRUE
NeedsCreate(m, key) == Lookup(m, key) = NoClient /\ Lookup(m, key) = NoClient

\* Lines 84-85: Client::new(&items[1]) with created_client.opt = self.opt.
NewClient_DefaultOpt(key, o, n) == [addr |-> Address(key), opt |-> [retry |-> 0], id |-> n]
NewClient(key, o, n) == [addr |-> Address(key), opt |-> o, id |-> n]

\* Lines 86-91: the Client is inserted on the Ok arm of start() only.
Inserts_Always(startOk) == TRUE
Inserts_Never(startOk) == FALSE
Inserts(startOk) == startOk

\* The map when get_cached_client returns.
CacheAfter_Replaces(m, key, o, n, startOk) ==
    IF startOk THEN [m EXCEPT ![key] = NewClient(key, o, n)] ELSE m
CacheAfter(m, key, o, n, startOk) ==
    IF NeedsCreate(m, key) /\ Inserts(startOk)
    THEN [m EXCEPT ![key] = NewClient(key, o, n)]
    ELSE m

\* The Result get_cached_client returns: Err(err) of a failed start, else the
\* final get_mut: Ok(client) or "client still not found".
GetCachedResult(m, key, o, n, startOk) ==
    IF NeedsCreate(m, key) /\ ~startOk
    THEN StartError(key, n)
    ELSE LET after == CacheAfter(m, key, o, n, startOk)
         IN  IF Lookup(after, key) # NoClient
             THEN Res("Ok", "client", key, Lookup(after, key).id)
             ELSE ClientNotFound

\* ---------------------------------------------------------- call / acall
\* Line 133: if is_oneway { return opt_rt; }
OnewayReturns_Never(ow) == FALSE
OnewayReturns(ow) == ow

\* Lines 140-161: the arm of match self.fail_mode taken on an error.
OnError_AlwaysRetry(fm) == "retry"
OnError_BackupRetries(fm) == IF fm \in {Failtry, Failbackup} THEN "retry" ELSE "return"
OnError(fm) ==
    CASE fm = Failover -> "fall"
      [] fm = Failfast -> "return"
      [] fm = Failtry -> "retry"
      [] fm = Failbackup -> "fall"

\* Line 139: if rt.is_err() { match self.fail_mode ... }
ConsultsPolicy_Always(r) == TRUE
ConsultsPolicy(r) == is_err(r)

\* Line 145: while retry > 0
LoopCond_OffByOne(r) == r > 1
LoopCond(r) == r > 0

\* Line 155: if rt.is_ok() { return Some(rt); }
LoopReturns_Never(r) == FALSE
LoopReturns(r) == is_ok(r)

\* Lines 129, 147: the loop invokes selected_client, the Client bound before
\* the first call, which is the one stored under the key of this call.
RetryTarget_Reselects(c) == CHOOSE key \in Keys : key # k[c]
RetryTarget(c) == k[c]

\* What Client::call can answer: a reply or an error, and for a one-way
\* call also no result.
CallKinds(ow) == IF ow THEN {"Ok", "Err", "None"} ELSE {"Ok", "Err"}

\* &mut self (lines 106, 167): an operation on the XClient begins only when
\* no activation of call()/acall() is running.  A future that acall()
\* returned and that has not resolved does not borrow the XClient.
Exclusive == \A d \in Callers : pc[d] \in {"idle", "done", "pending"}

\* The entry of call()/acall(): a fresh activation, then selector.select and
\* the is_empty test (lines 117-121, 177-180).  A caller that begins while
\* its earlier future is unresolved lets go of that handle.
Begin(c, o, key, ow) ==
    /\ Exclusive
    /\ ncalls < MaxCalls
    /\ ncalls' = ncalls + 1
    /\ op' = [op EXCEPT ![c] = o]
    /\ is_oneway' = [is_oneway EXCEPT ![c] = ow]
    /\ k' = [k EXCEPT ![c] = key]
    /\ selected' = [selected EXCEPT ![c] = <<key>>]
    /\ outcomes' = [outcomes EXCEPT ![c] = <<>>]
    /\ built' = [built EXCEPT ![c] = FALSE]
    /\ retry' = [retry EXCEPT ![c] = 0]
    /\ rt' = [rt EXCEPT ![c] = None]
    /\ IF IsEmpty(key)
       THEN /\ pc' = [pc EXCEPT ![c] = "done"]
            /\ ret' = [ret EXCEPT ![c] = ServerNotFound]
       ELSE /\ pc' = [pc EXCEPT ![c] = "wait"]
            /\ ret' = [ret EXCEPT ![c] = None]
    /\ UNCHANGED <<xclient, clients, guard, counters>>

\* call(): lines 116-121.
CallSelect(c) ==
    \E key \in AllKeys, ow \in BOOLEAN : Begin(c, "call", key, ow)

\* acall(): lines 176-180.
ACallSelect(c) ==
    \E key \in AllKeys : Begin(c, "acall", key, FALSE)

\* self.clients.write().unwrap() (lines 123, 182).
AcquireWrite(c) ==
    /\ pc[c] = "wait"
    /\ guard = NoHolder
    /\ guard' = c
    /\ pc' = [pc EXCEPT ![c] = "locked"]
    /\ UNCHANGED <<xclient, clients, perCall, ncalls, counters>>

\* get_cached_client and the is_err test after it (lines 124-127, 183-187).
\* startOk is the answer of Client::start, read only when a Client is built.
GetCachedClient(c) ==
    \E startOk \in BOOLEAN :
        LET key == k[c]
            need == NeedsCreate(clients, key)
            n == created[key] + 1
            r == GetCachedResult(clients, key, opt, n, startOk)
        IN  /\ pc[c] = "locked"
            /\ guard = c
            /\ need \/ startOk
            /\ clients' = CacheAfter(clients, key, opt, n, startOk)
            /\ created' = IF need THEN [created EXCEPT ![key] = n] ELSE created
            /\ started' = IF need /\ startOk
                          THEN [started EXCEPT ![key] = @ + 1]
                          ELSE started
            /\ failed' = IF need /\ ~startOk
                         THEN [failed EXCEPT ![key] = @ + 1]
                         ELSE failed
            /\ built' = [built EXCEPT ![c] = need]
            /\ IF is_err(r)
               THEN /\ ret' = [ret EXCEPT ![c] = r]
                    /\ pc' = [pc EXCEPT ![c] = "done"]
                    /\ guard' = NoHolder
               ELSE /\ pc' = [pc EXCEPT ![c] = "invoke"]
                    /\ UNCHANGED <<ret, guard>>
            /\ UNCHANGED <<xclient, op, is_oneway, k, retry, rt, selected,
                           outcomes, ncalls>>

\* Returning from call(): the value and the drop of clients_guard.
Return_KeepsGuard(c, r) ==
    /\ ret' = [ret EXCEPT ![c] = r]
    /\ pc' = [pc EXCEPT ![c] = "done"]
    /\ guard' = guard
Return(c, r) ==
    /\ ret' = [ret EXCEPT ![c] = r]
    /\ pc' = [pc EXCEPT ![c] = "done"]
    /\ guard' = NoHolder

\* Lines 129-164 up to the Failtry loop: the first Client::call, the one-way
\* return, and the match on fail_mode.
CallInvoke(c) ==
    \E kind \in CallKinds(is_oneway[c]) :
        LET opt_rt == Res(kind, "call", k[c], Len(outcomes[c]) + 1)
        IN  /\ pc[c] = "invoke"
            /\ op[c] = "call"
            /\ outcomes' = [outcomes EXCEPT ![c] = Append(@, opt_rt)]
            /\ IF OnewayReturns(is_oneway[c])
               THEN /\ Return(c, opt_rt)
                    /\ UNCHANGED <<rt, retry>>
               ELSE /\ rt' = [rt EXCEPT ![c] = opt_rt]
                    /\ IF ConsultsPolicy(opt_rt) /\ OnError(fail_mode) = "retry"
                       THEN /\ retry' = [retry EXCEPT ![c] = opt.retry]
                            /\ pc' = [pc EXCEPT ![c] = "retry"]
                            /\ UNCHANGED <<ret, guard>>
                       ELSE /\ Return(c, opt_rt)
                            /\ UNCHANGED retry
            /\ UNCHANGED <<xclient, clients, op, is_oneway, k, selected, built,
                           ncalls, counters>>

\* One turn of the Failtry loop (lines 145-158).
RetryInvoke(c) ==
    \E kind \in CallKinds(FALSE) :
        LET r == Res(kind, "call", RetryTarget(c), Len(outcomes[c]) + 1)
        IN  /\ pc[c] = "retry"
            /\ LoopCond(retry[c])
            /\ retry' = [retry EXCEPT ![c] = @ - 1]
            /\ outcomes' = [outcomes EXCEPT ![c] = Append(@, r)]
            /\ IF LoopReturns(r)
               THEN Return(c, r)
               ELSE UNCHANGED <<ret, pc, guard>>
            /\ UNCHANGED <<xclient, clients, op, is_oneway, k, rt, selected,
                           built, ncalls, counters>>

\* The loop ends with retry = 0 and call() returns Some(rt) (line 164), rt
\* being the binding of line 137.
RetryExhausted(c) ==
    /\ pc[c] = "retry"
    /\ ~LoopCond(retry[c])
    /\ Return(c, rt[c])
    /\ UNCHANGED <<xclient, clients, op, is_oneway, k, retry, rt, selected,
                   outcomes, built, ncalls, counters>>

\* acall(): Client::acall hands back the future and acall returns it (lines
\* 190-192); the guard is dropped, the reply is still to come.
ACallInvoke(c) ==
    /\ pc[c] = "invoke"
    /\ op[c] = "acall"
    /\ outcomes' = [outcomes EXCEPT ![c] = Append(@, Res("Pending", "acall", k[c], 1))]
    /\ pc' = [pc EXCEPT ![c] = "pending"]
    /\ guard' = NoHolder
    /\ UNCHANGED <<xclient, clients, op, is_oneway, k, retry, rt, ret, selected,
                   built, ncalls, counters>>

\* The future of Client::acall resolves.
Resolve(c) ==
    \E kind \in CallKinds(FALSE) :
        LET r == Res(kind, "acall", k[c], 1)
        IN  /\ pc[c] = "pending"
            /\ outcomes' = [outcomes EXCEPT ![c] = <<r>>]
            /\ ret' = [ret EXCEPT ![c] = r]
            /\ pc' = [pc EXCEPT ![c] = "done"]
            /\ UNCHANGED <<xclient, clients, guard, op, is_oneway, k, retry, rt,
                           selected, built, ncalls, counters>>

\* One step of caller c.
Step(c) ==
    \/ CallSelect(c)
    \/ ACallSelect(c)
    \/ AcquireWrite(c)
    \/ GetCachedClient(c)
    \/ CallInvoke(c)
    \/ RetryInvoke(c)
    \/ RetryExhausted(c)
    \/ ACallInvoke(c)
    \/ Resolve(c)

Next == \E c \in Callers : Step(c)

Spec == Init /\ [][Next]_vars

\* opt is a pub field (line 53): the owner of the XClient may assign it
\* between calls (call and acall borrow the XClient mutably while they run).
\* An assignment counts as one operation of the budget.
Owner == "c1"

SetOpt(o) ==
    /\ Exclusive
    /\ ncalls < MaxCalls
    /\ o # opt
    /\ opt' = o
    /\ ncalls' = ncalls + 1
    /\ UNCHANGED <<fail_mode, clients, guard, pc, perCall, counters>>

NextOpt ==
    \/ Step(Owner)
    \/ \E o \in Opts : SetOpt(o)

\* The XClient in the hands of one owner, who calls it and assigns its
\* options between calls.
SpecOpt == Init /\ [][NextOpt]_vars

\* ------------------------------------------------------------- type check
TypeOK ==
    /\ fail_mode \in FailMode
    /\ opt \in Opts
    /\ guard \in Callers \cup {NoHolder}
    /\ ncalls \in 0..MaxCalls
    /\ \A c \in Callers :
        /\ pc[c] \in {"idle", "wait", "locked", "invoke", "retry", "pending", "done"}
        /\ op[c] \in {"call", "acall"}
        /\ k[c] \in AllKeys
        /\ retry[c] \in 0..MaxRetry

\* ------------------------------------------------------------ vocabulary
Done(c) == pc[c] = "done"

\* The call of c has been handed its Client by get_cached_client.
HasClient(c) == pc[c] \in {"invoke", "retry", "pending"} \/ outcomes[c] # <<>>

\* A blocking call that awaits a reply.
Blocking(c) == op[c] = "call" /\ ~is_oneway[c]

AllErr(s) == \A i \in 1..Len(s) : is_err(s[i])

Distinct(s) == \A i, j \in 1..Len(s) : i # j => s[i] # s[j]

\* -------------------------------------------------------------------- C1
\* C1: for every key at most one Client is ever started and stored, however
\* many callers ask for it and in whatever order: the successful starts of a key are
\* at most one, they are one exactly when the key is in the map, every
\* Client::new of the key is the stored one or one whose start failed, and a
\* caller that was handed the key's Client found it in the map.  With no
\* failed start the creation counter of a key that is in use is exactly 1.
C1_ExactlyOnce ==
    \A key \in AllKeys :
        /\ started[key] <= 1
        /\ (started[key] = 1) <=> (clients[key] # NoClient)
        /\ created[key] = started[key] + failed[key]
        /\ clients[key] # NoClient => clients[key].id = created[key]
        /\ \A c \in Callers :
               HasClient(c) /\ k[c] = key =>
                   /\ clients[key] # NoClient
                   /\ failed[key] = 0 => created[key] = 1

\* Both callers asked for the same key, one built its Client and the other
\* was served the stored one, and the key was created once.
C1_Witness ==
    \E key \in Keys :
        /\ \A c \in Callers : Done(c) /\ k[c] = key /\ is_ok(ret[c])
        /\ \E c, d \in Callers : built[c] /\ ~built[d]
        /\ ncalls = 2
        /\ created[key] = 1

\* -------------------------------------------------------------------- C2
\* C2: under Failtry with retry = N a blocking call never invokes its Client
\* more than N+1 times, and one whose every invocation failed has invoked it
\* exactly N+1 times when it returns, and returns an error.
C2_FailtryCount ==
    \A c \in Callers :
        fail_mode = Failtry /\ Blocking(c) =>
            /\ Len(outcomes[c]) <= opt.retry + 1
            /\ Done(c) /\ outcomes[c] # <<>> /\ AllErr(outcomes[c]) =>
                   /\ Len(outcomes[c]) = opt.retry + 1
                   /\ is_err(ret[c])

C2_Witness ==
    \E c \in Callers :
        /\ fail_mode = Failtry /\ Blocking(c) /\ Done(c)
        /\ opt.retry = 2
        /\ Len(outcomes[c]) = 3
        /\ AllErr(outcomes[c])
        /\ is_err(ret[c])

\* -------------------------------------------------------------------- C3
\* C3: under Failtry, when every attempt of a blocking call fails, the error
\* returned is the one of the last attempt.
C3_FinalError ==
    \A c \in Callers :
        fail_mode = Failtry /\ Blocking(c) /\ Done(c)
        /\ outcomes[c] # <<>> /\ AllErr(outcomes[c]) =>
            ret[c] = outcomes[c][Len(outcomes[c])]

\* -------------------------------------------------------------------- C4
\* C4: under Failtry a success of a blocking call is its last invocation and
\* is what the call returns: after K failures and one success the Client was
\* invoked K+1 times and no more.
C4_FirstSuccess ==
    \A c \in Callers :
        fail_mode = Failtry /\ Blocking(c) =>
            \A i \in 1..Len(outcomes[c]) :
                is_ok(outcomes[c][i]) =>
                    /\ i = Len(outcomes[c])
                    /\ Done(c)
                    /\ ret[c] = outcomes[c][i]

\* K = 1 failure, then a success, with retry = 2.
C4_Witness ==
    \E c \in Callers :
        /\ fail_mode = Failtry /\ Blocking(c) /\ Done(c)
        /\ opt.retry = 2
        /\ Len(outcomes[c]) = 2
        /\ is_err(outcomes[c][1])
        /\ is_ok(outcomes[c][2])
        /\ ret[c] = outcomes[c][2]

\* -------------------------------------------------------------------- C5
\* C5: under Failfast a blocking call whose first invocation fails returns
\* that very error at once: one invocation, one selection.
C5_Failfast ==
    \A c \in Callers :
        fail_mode = Failfast /\ Blocking(c)
        /\ outcomes[c] # <<>> /\ is_err(outcomes[c][1]) =>
            /\ Done(c)
            /\ ret[c] = outcomes[c][1]
            /\ Len(outcomes[c]) = 1
            /\ Len(selected[c]) = 1

C5_Witness ==
    \E c \in Callers :
        /\ fail_mode = Failfast /\ Blocking(c) /\ Done(c)
        /\ opt.retry = 2
        /\ outcomes[c] = <<Res("Err", "call", k[c], 1)>>
        /\ ret[c] = outcomes[c][1]

\* -------------------------------------------------------------------- C6
\* C6: under Failover with three candidate servers and retry >= 2 a call
\* gives up with a call error only after selection has run at least three
\* times on distinct keys (so a third server that would answer is reached).
C6_Failover ==
    \A c \in Callers :
        fail_mode = Failover /\ Blocking(c) /\ Done(c) /\ opt.retry >= 2
        /\ outcomes[c] # <<>> /\ is_err(ret[c]) =>
            /\ Len(selected[c]) >= 3
            /\ Distinct(selected[c])

\* -------------------------------------------------------------------- C7
\* C7: under Failbackup a call whose primary server gave no reply (its
\* invocation ended in an error) has re-run selection for a second, distinct
\* server.
C7_Failbackup ==
    \A c \in Callers :
        fail_mode = Failbackup /\ Blocking(c) /\ Done(c)
        /\ outcomes[c] # <<>> /\ is_err(outcomes[c][1]) =>
            /\ Len(selected[c]) >= 2
            /\ selected[c][2] # selected[c][1]

\* -------------------------------------------------------------------- C8
\* C8: in every fail mode, for call() and acall(), an empty key from the
\* selector ends the call at once with ServerNotFound after one selection:
\* no Client is built or invoked for it, nothing is ever stored under the
\* empty key, and the step leaves the map and the counters as they were.
C8_ServerNotFound ==
    [][/\ \A c \in Callers :
              k'[c] = EmptyKey /\ pc'[c] # "idle" =>
                  /\ pc'[c] = "done"
                  /\ ret'[c] = ServerNotFound
                  /\ outcomes'[c] = <<>>
                  /\ ~built'[c]
                  /\ Len(selected'[c]) = 1
       /\ clients'[EmptyKey] = NoClient
       /\ created'[EmptyKey] = 0
       /\ ncalls' # ncalls =>
              /\ clients' = clients
              /\ guard' = guard
              /\ <<created, started, failed>>' = <<created, started, failed>>
      ]_vars

\* One caller got ServerNotFound from call(), the other from acall(), under
\* Failtry with retries to spare.
C8_Witness ==
    /\ fail_mode = Failtry
    /\ opt.retry = 2
    /\ \A c \in Callers : Done(c) /\ k[c] = EmptyKey /\ ret[c] = ServerNotFound
    /\ \E c, d \in Callers : op[c] = "call" /\ op[d] = "acall"

\* -------------------------------------------------------------------- C9
\* C9: a one-way call() invokes its Client once, whatever the fail mode and
\* the retry count, and returns what that invocation answered.
C9_Oneway ==
    \A c \in Callers :
        op[c] = "call" /\ is_oneway[c] /\ outcomes[c] # <<>> =>
            /\ Done(c)
            /\ Len(outcomes[c]) = 1
            /\ ret[c] = outcomes[c][1]
            /\ Len(selected[c]) = 1

\* A one-way send that failed under Failtry with retries to spare.
C9_Witness ==
    \E c \in Callers :
        /\ fail_mode = Failtry /\ opt.retry = 2
        /\ op[c] = "call" /\ is_oneway[c] /\ Done(c)
        /\ ret[c] = Res("Err", "call", k[c], 1)
        /\ Len(outcomes[c]) = 1

\* ------------------------------------------------------------------- C10
\* C10: a get_cached_client that misses always builds a Client; when its
\* start fails the error is what the call returns and the map is unchanged,
\* and when its start succeeds (also after earlier failures for the key) the
\* Client is stored and the call goes on to invoke it.
C10_StartFailure ==
    [][\A c \in Callers :
           LET key == k[c]
           IN  pc[c] = "locked" /\ pc'[c] # "locked" /\ clients[key] = NoClient =>
                   /\ created'[key] = created[key] + 1
                   /\ IF started'[key] = started[key]
                      THEN /\ clients' = clients
                           /\ pc'[c] = "done"
                           /\ ret'[c] = StartError(key, created'[key])
                      ELSE /\ clients'[key] = NewClient(key, opt, created'[key])
                           /\ pc'[c] = "invoke"
      ]_vars

\* A start failed for the key, a later call built the Client again, stored
\* it and got a reply through it.
C10_Witness ==
    \E key \in Keys, c \in Callers :
        /\ failed[key] = 1
        /\ started[key] = 1
        /\ clients[key] = NewClient(key, opt, 2)
        /\ Done(c) /\ k[c] = key /\ built[c] /\ is_ok(ret[c])

\* ------------------------------------------------------------------- C11
\* C11: a failed start of the Client for the selected key is handled by fail
\* mode: under Failfast the call ends with that error, and under Failtry with
\* retry >= 1 the call does not end on it but tries the same key again.
C11_ConnectionError ==
    [][\A c \in Callers :
           op[c] = "call" /\ pc[c] = "locked" /\ failed'[k[c]] # failed[k[c]] =>
               /\ fail_mode = Failfast =>
                      pc'[c] = "done" /\ ret'[c] = StartError(k[c], created'[k[c]])
               /\ fail_mode = Failtry /\ opt.retry >= 1 => pc'[c] # "done"
      ]_vars

\* ------------------------------------------------------------------- C12
\* C12: under Failtry with retry = N an acall() whose first attempt resolves
\* to an error resolves to an error only after N+1 attempts on its Client
\* have failed.
C12_ACallFailtry ==
    \A c \in Callers :
        fail_mode = Failtry /\ op[c] = "acall" /\ Done(c)
        /\ outcomes[c] # <<>> /\ is_err(ret[c]) =>
            /\ Len(outcomes[c]) = opt.retry + 1
            /\ AllErr(outcomes[c])

\* ------------------------------------------------------------------- C13
\* C13: a caller whose key is in the map is never made to wait for another
\* caller's call that is at work on a different key: while that call is
\* running (building its Client or waiting for the remote reply), a call()
\* for the cached key can begin.
C13_HitNeverWaits ==
    \A c, d \in Callers, key \in Keys :
        /\ c # d
        /\ pc[d] \in {"locked", "invoke", "retry"}
        /\ k[d] # key
        /\ clients[key] # NoClient
        /\ pc[c] \in {"idle", "done"}
        /\ ncalls < MaxCalls
        => ENABLED Begin(c, "call", key, FALSE)

\* ------------------------------------------------------------------- C14
\* C14: no step removes or replaces an entry of the map: a key that maps to
\* a Client maps to that same Client after every step.
C14_NeverEvicted ==
    [][\A key \in AllKeys :
           clients[key] # NoClient => clients'[key] = clients[key]]_vars

\* The key is stored, a later call found it in the map and came back with an
\* error of the Client, and the entry is still the first Client built.
C14_Witness ==
    \E key \in Keys, c \in Callers :
        /\ clients[key] = NewClient(key, opt, 1)
        /\ Done(c) /\ k[c] = key /\ ~built[c]
        /\ outcomes[c] # <<>> /\ is_err(ret[c])
        /\ ncalls = MaxCalls

\* ------------------------------------------------------------------- C15
\* C15: a Client enters the map carrying the options the XClient has at that
\* step, and keeps them whatever is assigned to the XClient's options later.
C15_OptCopied ==
    [][\A key \in AllKeys :
           /\ clients[key] = NoClient /\ clients'[key] # NoClient =>
                  clients'[key].opt = opt /\ opt' = opt
           /\ clients[key] # NoClient => clients'[key].opt = clients[key].opt
      ]_vars

\* Two Clients built under different options: one before an assignment to
\* opt, one after it.
C15_Witness ==
    \E key1, key2 \in Keys :
        /\ clients[key1] # NoClient /\ clients[key2] # NoClient
        /\ clients[key1].opt # opt
        /\ clients[key2].opt = opt
        /\ opt.retry # 0

\* ------------------------------------------------------------------- C16
\* C16: "client still not found" is never returned: get_cached_client ends
\* with the error of a failed start or with the Client of the key.
C16_NoClientNotFound ==
    \A c \in Callers :
        /\ ret[c] # ClientNotFound
        /\ pc[c] = "locked" =>
               \A startOk \in BOOLEAN :
                   LET r == GetCachedResult(clients, k[c], opt,
                                            created[k[c]] + 1, startOk)
                   IN  \/ r = StartError(k[c], created[k[c]] + 1)
                       \/ is_ok(r) /\ r.key = k[c]

\* get_cached_client has run on its three paths for one key: a failed
\* start, a build, and a hit whose call came back with a reply.
C16_Witness ==
    \E key \in Keys, d \in Callers :
        /\ failed[key] = 1 /\ started[key] = 1
        /\ Done(d) /\ k[d] = key /\ ~built[d] /\ is_ok(ret[d])
        /\ \A c \in Callers : ret[c] # ClientNotFound

\* ------------------------------------------------------------------- C17
\* C17: while a call is in its Failtry loop the selector is not asked again,
\* no Client is built or started, the map does not change, and every
\* invocation goes to the Client of the key selected for the call.
C17_RetryFrame ==
    [][\A c \in Callers :
           pc[c] = "retry" =>
               /\ selected'[c] = selected[c]
               /\ k'[c] = k[c]
               /\ clients' = clients
               /\ <<created, started, failed>>' = <<created, started, failed>>
               /\ \A i \in 1..Len(outcomes'[c]) : outcomes'[c][i].key = k[c]
      ]_vars

\* Two retries made on the Client this call built, while a future of the
\* other caller is unresolved.
C17_Witness ==
    \E c, d \in Callers :
        /\ fail_mode = Failtry /\ opt.retry = 2
        /\ Done(c) /\ Len(outcomes[c]) = 3 /\ Len(selected[c]) = 1
        /\ built[c] /\ created[k[c]] = 1
        /\ pc[d] = "pending"

\* ------------------------------------------------------------------- C18
\* C18: a Failbackup call that selected no second key ends as a Failfast
\* call does: whatever the first invocation answered is returned, after one
\* invocation.
C18_BackupAsFailfast ==
    \A c \in Callers :
        fail_mode \in {Failbackup, Failfast} /\ Blocking(c) /\ outcomes[c] # <<>> =>
            /\ Done(c)
            /\ Len(outcomes[c]) = 1
            /\ ret[c] = outcomes[c][1]

C18_Witness ==
    \E c \in Callers :
        /\ fail_mode = Failbackup /\ opt.retry = 2
        /\ Blocking(c) /\ Done(c)
        /\ Len(selected[c]) = 1
        /\ ret[c] = Res("Err", "call", k[c], 1)

\* ------------------------------------------------------------------- C19
\* C19: the lock is held only by a call that has not returned: a caller that
\* is idle, has returned, waits, or holds a pending future does not hold it,
\* so once every running call has returned the lock is free for the next.
C19_LockReleased ==
    /\ \A c \in Callers :
           pc[c] \in {"idle", "done", "wait", "pending"} => guard # c
    /\ guard # NoHolder => pc[guard] \in {"locked", "invoke", "retry"}
    /\ (\A c \in Callers : pc[c] \notin {"locked", "invoke", "retry"}) =>
           guard = NoHolder

\* A call returned a start error, another returned from acall with its
\* future pending, and the third call has taken the lock.
C19_Witness ==
    \E c, d \in Callers :
        /\ pc[c] = "locked" /\ guard = c
        /\ pc[d] = "pending"
        /\ ncalls = 3
        /\ \E key \in Keys : failed[key] = 1

\* ------------------------------------------------------------------- C20
\* C20: in every fail mode and for every retry count, a blocking call whose
\* first invocation succeeds returns that reply after one selection and one
\* invocation.
C20_FirstSuccess ==
    \A c \in Callers :
        Blocking(c) /\ outcomes[c] # <<>> /\ is_ok(outcomes[c][1]) =>
            /\ Done(c)
            /\ ret[c] = outcomes[c][1]
            /\ Len(outcomes[c]) = 1
            /\ Len(selected[c]) = 1

C20_Witness ==
    \E c \in Callers :
        /\ fail_mode = Failtry /\ opt.retry = 2
        /\ Blocking(c) /\ Done(c)
        /\ ret[c] = Res("Ok", "call", k[c], 1)
        /\ outcomes[c] = <<ret[c]>>

====
